---- MODULE Spec2Model ----
(***************************************************************************)
(* Camera of the 2D game engine (camera.js): world-coordinate window,      *)
(* viewport / scissor rectangles, per-frame draw preparation on a shared   *)
(* graphics surface, and WC-boundary collision / clamping of a Transform.  *)
(*                                                                         *)
(* JavaScript numbers are modelled as exact rationals <<n, d>> with d > 0  *)
(* in lowest terms; the two non-numbers a short array read can produce are *)
(* the pairs Undefined and NaN (denominator 0).                            *)
(***************************************************************************)
EXTENDS Integers, Sequences, FiniteSets, TLC

\* ------------------------------------------------------------ numbers

RECURSIVE GCD(_, _)
GCD(a, b) == IF b = 0 THEN a ELSE GCD(b, a % b)

Abs(i) == IF i < 0 THEN -i ELSE i

\* the rational n/d in lowest terms with a positive denominator (d # 0)
Rat(n, d) ==
    LET g == GCD(Abs(n), Abs(d))
        s == IF d < 0 THEN -1 ELSE 1
    IN  <<(s * n) \div g, (s * d) \div g>>

R(i) == <<i, 1>>

Undefined == <<1, 0>>
NaN == <<0, 0>>
IsNum(a) == a[2] > 0

\* JS +, -, *, / on numbers; any operand that is undefined or NaN gives NaN
JsAdd(a, b) ==
    IF IsNum(a) /\ IsNum(b) THEN Rat(a[1] * b[2] + b[1] * a[2], a[2] * b[2]) ELSE NaN
JsSub(a, b) ==
    IF IsNum(a) /\ IsNum(b) THEN Rat(a[1] * b[2] - b[1] * a[2], a[2] * b[2]) ELSE NaN
JsMul(a, b) ==
    IF IsNum(a) /\ IsNum(b) THEN Rat(a[1] * b[1], a[2] * b[2]) ELSE NaN
JsDiv(a, b) ==
    IF IsNum(a) /\ IsNum(b) /\ b[1] # 0 THEN Rat(a[1] * b[2], a[2] * b[1]) ELSE NaN
JsNeg(a) == JsSub(R(0), a)
\* JS <, >: false as soon as an operand is not a number
JsLt(a, b) == IsNum(a) /\ IsNum(b) /\ a[1] * b[2] < b[1] * a[2]
JsGt(a, b) == JsLt(b, a)

\* ------------------------------------------------------------ arrays

\* arr[i] of a JS array (index i counted from 0): undefined past the end
Get(arr, i) == IF i + 1 <= Len(arr) THEN arr[i + 1] ELSE Undefined

\* arr[i] = v on a JS array whose elements 0..i-1 exist
Put(arr, i, v) ==
    IF i + 1 <= Len(arr) THEN [arr EXCEPT ![i + 1] = v] ELSE Append(arr, v)

eOrgX == 0
eOrgY == 1
eWidth == 2
eHeight == 3

kCameraZ == 10

NULL == <<>>

\* ------------------------------------------------------------ bounds and inputs

MaxBound == 1

Bounds == 0 .. MaxBound

\* raw viewport rectangles [x, y, w, h] in pixels
Rect(x, y, w, h) == <<R(x), R(y), R(w), R(h)>>
Rects == {Rect(0, 0, 640, 480), Rect(10, 20, 200, 100)}
Centers == {<<R(0), R(0)>>, <<R(3), R(-5)>>}
Widths == {R(20), R(8)}
Colors == {<<Rat(1, 10), Rat(2, 10), Rat(3, 10), R(1)>>, <<R(0), R(0), R(0), R(1)>>}
ShakeCenters == {<<Rat(-7, 2), R(2)>>}
OtherRects == {Rect(320, 0, 320, 480)}

\* malformed viewport arrays: fewer than 4 components
ShortRects == {SubSeq(Rect(0, 0, 640, 480), 1, n) : n \in 0 .. 3}
\* objects handed to collideWCBound / clampAtBoundary
ObjXs == {R(-11), R(0), R(11)}
ObjYs == {R(-8), R(0), R(8)}
ObjSizes == {R(2), R(30)}
Zones == {R(1), Rat(1, 2)}
\* what a caller stores into an array it holds, and where
Poison == R(-999)
WriteIdx == {eOrgX, eHeight}

\* ------------------------------------------------------------ state

VARIABLES
    mCameraState,     \* CameraState: [center, width]
    mCameraShake,     \* NULL or <<shake centre>>
    heap,             \* the arrays: mViewport, mScissorBound, the caller's arg and out
    mViewportBound,
    mCameraMatrix,    \* mat4, column major, 16 entries
    mBGColor,
    mRenderCache,     \* PerRenderCache
    gl,               \* the shared graphics surface
    outRef,           \* the array the caller got from its last getViewport()
    xform,            \* the Transform handed to collide / clamp: [pos, w, h]
    ret,              \* what the latest call returned
    lastViewportArgs  \* the rectangle and bound of the latest viewport configuration

vars == <<mCameraState, mCameraShake, heap, mViewportBound, mCameraMatrix, mBGColor,
          mRenderCache, gl, outRef, xform, ret, lastViewportArgs>>

camVars == <<mCameraState, mCameraShake, heap, mViewportBound, mCameraMatrix, mBGColor,
             mRenderCache>>

\* ------------------------------------------------------------ gl-matrix

mat4create ==
    <<R(1), R(0), R(0), R(0),  R(0), R(1), R(0), R(0),
      R(0), R(0), R(1), R(0),  R(0), R(0), R(0), R(1)>>

\* mat4.scale(out, a, v): columns 0..2 of a scaled by v
mat4scale(a, v) ==
    [i \in 1 .. 16 |->
        IF i <= 4 THEN JsMul(a[i], v[1])
        ELSE IF i <= 8 THEN JsMul(a[i], v[2])
        ELSE IF i <= 12 THEN JsMul(a[i], v[3])
        ELSE a[i]]

\* mat4.translate(out, a, v) with out the same matrix as a
mat4translate(a, v) ==
    [i \in 1 .. 16 |->
        IF i <= 12 THEN a[i]
        ELSE JsAdd(JsAdd(JsAdd(JsMul(a[i - 12], v[1]), JsMul(a[i - 8], v[2])),
                         JsMul(a[i - 4], v[3])), a[i])]

\* the matrix applied to the point (x, y, 0, 1): its x and y components
Apply(m, p) ==
    <<JsAdd(JsAdd(JsMul(m[1], p[1]), JsMul(m[5], p[2])), m[13]),
      JsAdd(JsAdd(JsMul(m[2], p[1]), JsMul(m[6], p[2])), m[14])>>

\* ------------------------------------------------------------ graphics surface

NoRect == <<R(0), R(0), R(0), R(0)>>

glInit ==
    [viewport |-> NoRect, scissor |-> NoRect, clearColor |-> <<R(0), R(0), R(0), R(0)>>,
     scissorTest |-> FALSE, calls |-> <<>>,
     cleared |-> [scissored |-> FALSE, rect |-> NoRect, color |-> <<R(0), R(0), R(0), R(0)>>]]

glViewport(g, x, y, w, h) ==
    [g EXCEPT !.viewport = <<x, y, w, h>>,
              !.calls = Append(@, [f |-> "viewport", args |-> <<x, y, w, h>>])]
glScissor(g, x, y, w, h) ==
    [g EXCEPT !.scissor = <<x, y, w, h>>,
              !.calls = Append(@, [f |-> "scissor", args |-> <<x, y, w, h>>])]
glClearColor(g, r, gg, b, a) ==
    [g EXCEPT !.clearColor = <<r, gg, b, a>>,
              !.calls = Append(@, [f |-> "clearColor", args |-> <<r, gg, b, a>>])]
glEnableScissorTest(g) ==
    [g EXCEPT !.scissorTest = TRUE,
              !.calls = Append(@, [f |-> "enable", args |-> <<>>])]
glDisableScissorTest(g) ==
    [g EXCEPT !.scissorTest = FALSE,
              !.calls = Append(@, [f |-> "disable", args |-> <<>>])]
\* clear(COLOR_BUFFER_BIT): the scissor rectangle when the test is on, else everything
glClear(g) ==
    [g EXCEPT !.cleared = [scissored |-> g.scissorTest, rect |-> g.scissor,
                           color |-> g.clearColor],
              !.calls = Append(@, [f |-> "clear", args |-> <<>>])]

\* ------------------------------------------------------------ collaborators

\* BoundingBox(centerPos, w, h)
BoundingBox(c, w, h) ==
    [minX |-> JsSub(c[1], JsDiv(w, R(2))), maxX |-> JsAdd(c[1], JsDiv(w, R(2))),
     minY |-> JsSub(c[2], JsDiv(h, R(2))), maxY |-> JsAdd(c[2], JsDiv(h, R(2)))]

eInside == {"inside"}
eCollideTop == {"top"}
eCollideBottom == {"bottom"}
eCollideLeft == {"left"}
eCollideRight == {"right"}

\* this.boundCollideStatus(other): the edges of this box that other violates
boundCollideStatus(this, other) ==
    LET edges == (IF JsLt(other.minX, this.minX) THEN eCollideLeft ELSE {})
           \cup (IF JsGt(other.maxX, this.maxX) THEN eCollideRight ELSE {})
           \cup (IF JsLt(other.minY, this.minY) THEN eCollideBottom ELSE {})
           \cup (IF JsGt(other.maxY, this.maxY) THEN eCollideTop ELSE {})
    IN  IF edges = {} THEN eInside ELSE edges

\* wcPosToPixel(p) on a cache: (p - cameraOrg) * wcToPixelRatio
wcPosToPixel(cache, p) ==
    <<JsMul(JsSub(p[1], cache.mCameraOrgX), cache.mWCToPixelRatio),
      JsMul(JsSub(p[2], cache.mCameraOrgY), cache.mWCToPixelRatio)>>

fakeZInPixelSpace(cache, z) == JsMul(z, cache.mWCToPixelRatio)

\* ------------------------------------------------------------ Camera getters

getWCCenter == mCameraState.center
getWCWidth == mCameraState.width

\* the ratio taken from the un-inset rectangle
getWCHeightOfScissor ==
    LET ratio == JsDiv(Get(heap.mScissorBound, eHeight), Get(heap.mScissorBound, eWidth))
    IN  JsMul(mCameraState.width, ratio)

getWCHeight ==
    LET ratio == JsDiv(Get(heap.mViewport, eHeight), Get(heap.mViewport, eWidth))
    IN  JsMul(mCameraState.width, ratio)

PerRenderCache ==
    [mWCToPixelRatio |-> R(1), mCameraOrgX |-> R(1), mCameraOrgY |-> R(1),
     mCameraPosInPixelSpace |-> <<R(0), R(0), R(0)>>]

\* the four element writes of setViewport into each of the camera's two arrays
setViewportArrays(h, viewportArray, bound) ==
    LET v0 == Put(h.mViewport, 0, JsAdd(Get(viewportArray, 0), bound))
        v1 == Put(v0, 1, JsAdd(Get(viewportArray, 1), bound))
        v2 == Put(v1, 2, JsSub(Get(viewportArray, 2), JsMul(R(2), bound)))
        v3 == Put(v2, 3, JsSub(Get(viewportArray, 3), JsMul(R(2), bound)))
        s0 == Put(h.mScissorBound, 0, Get(viewportArray, 0))
        s1 == Put(s0, 1, Get(viewportArray, 1))
        s2 == Put(s1, 2, Get(viewportArray, 2))
        s3 == Put(s2, 3, Get(viewportArray, 3))
    IN  [h EXCEPT !.mViewport = v3, !.mScissorBound = s3]

\* ------------------------------------------------------------ Camera operations

\* what the latest call returned: the status of a collide / clamp call, with the zone
\* and the object position it was called with; NoRet after any other operation
Ret(op, zone, status, pos) == [op |-> op, zone |-> zone, status |-> status, posBefore |-> pos]
NoRet == Ret("none", R(0), {}, <<R(0), R(0)>>)

\* the centre setter also refreshing the matrix for the new centre
setWCCenterEager(xPos, yPos) ==
    /\ mCameraState' = [mCameraState EXCEPT !.center = <<xPos, yPos>>]
    /\ mCameraMatrix' = mat4translate(mat4scale(mat4create,
                             <<JsDiv(R(2), getWCWidth), JsDiv(R(2), getWCHeight),
                               JsDiv(R(1), R(kCameraZ))>>),
                             <<JsNeg(xPos), JsNeg(yPos), JsNeg(JsDiv(R(kCameraZ), R(2)))>>)
    /\ ret' = NoRet
    /\ UNCHANGED <<mCameraShake, heap, mViewportBound, mBGColor, mRenderCache, gl, outRef,
                   xform, lastViewportArgs>>

setWCCenter(xPos, yPos) ==
    /\ mCameraState' = [mCameraState EXCEPT !.center = <<xPos, yPos>>]
    /\ ret' = NoRet
    /\ UNCHANGED <<mCameraShake, heap, mViewportBound, mCameraMatrix, mBGColor,
                   mRenderCache, gl, outRef, xform,
                   lastViewportArgs>>

setWCWidth(width) ==
    /\ mCameraState' = [mCameraState EXCEPT !.width = width]
    /\ ret' = NoRet
    /\ UNCHANGED <<mCameraShake, heap, mViewportBound, mCameraMatrix, mBGColor,
                   mRenderCache, gl, outRef, xform,
                   lastViewportArgs>>

\* the caller builds viewportArray (kept in heap.arg) and passes it with bound,
\* which may be Undefined
setViewport(viewportArray, bound) ==
    LET b == IF bound = Undefined THEN mViewportBound ELSE bound
    IN  /\ heap' = setViewportArrays([heap EXCEPT !.arg = viewportArray], viewportArray, b)
        /\ lastViewportArgs' = [rect |-> viewportArray, bound |-> b]
        /\ ret' = NoRet
        /\ UNCHANGED <<mCameraState, mCameraShake, mViewportBound, mCameraMatrix, mBGColor,
                       mRenderCache, gl, outRef, xform>>

\* the camera's own scissor array handed out instead of a copy
getViewportNoCopy ==
    /\ outRef' = "mScissorBound"
    /\ ret' = NoRet
    /\ UNCHANGED <<mCameraState, mCameraShake, heap, mViewportBound, mCameraMatrix, mBGColor,
                   mRenderCache, gl, xform, lastViewportArgs>>

\* a fresh array out, filled from mScissorBound, handed to the caller
getViewport ==
    LET o0 == Put(<<>>, 0, Get(heap.mScissorBound, 0))
        o1 == Put(o0, 1, Get(heap.mScissorBound, 1))
        o2 == Put(o1, 2, Get(heap.mScissorBound, 2))
        o3 == Put(o2, 3, Get(heap.mScissorBound, 3))
    IN  /\ heap' = [heap EXCEPT !.out = o3]
        /\ outRef' = "out"
        /\ ret' = NoRet
        /\ UNCHANGED <<mCameraState, mCameraShake, mViewportBound, mCameraMatrix, mBGColor,
                       mRenderCache, gl, xform,
                   lastViewportArgs>>

setBackgroundColor(newColor) ==
    /\ mBGColor' = newColor
    /\ ret' = NoRet
    /\ UNCHANGED <<mCameraState, mCameraShake, heap, mViewportBound, mCameraMatrix,
                   mRenderCache, gl, outRef, xform,
                   lastViewportArgs>>

\* Steps A1-A4 with the clear issued before the scissor test is enabled
prepareSurfaceClearFirst(g, viewport, scissorBound, bgColor) ==
    LET g1 == glViewport(g, Get(viewport, 0), Get(viewport, 1), Get(viewport, 2),
                         Get(viewport, 3))
        g2 == glScissor(g1, Get(scissorBound, 0), Get(scissorBound, 1),
                        Get(scissorBound, 2), Get(scissorBound, 3))
        g3 == glClearColor(g2, Get(bgColor, 0), Get(bgColor, 1), Get(bgColor, 2),
                           Get(bgColor, 3))
        g4 == glClear(g3)
        g5 == glEnableScissorTest(g4)
    IN  glDisableScissorTest(g5)

\* Steps A1-A4 on the surface g for a camera with these rectangles and colour
prepareSurface(g, viewport, scissorBound, bgColor) ==
    LET g1 == glViewport(g, Get(viewport, 0), Get(viewport, 1), Get(viewport, 2),
                         Get(viewport, 3))
        g2 == glScissor(g1, Get(scissorBound, 0), Get(scissorBound, 1),
                        Get(scissorBound, 2), Get(scissorBound, 3))
        g3 == glClearColor(g2, Get(bgColor, 0), Get(bgColor, 1), Get(bgColor, 2),
                           Get(bgColor, 3))
        g4 == glEnableScissorTest(g3)
        g5 == glClear(g4)
    IN  glDisableScissorTest(g5)

\* the shake collaborator ignored
effectiveCenterNoShake == getWCCenter

\* Step B: the effective centre
effectiveCenter == IF mCameraShake # NULL THEN mCameraShake[1] ELSE getWCCenter

\* Steps B1, B2
computeCameraMatrix(center) ==
    LET m1 == mat4scale(mat4create,
                        <<JsDiv(R(2), getWCWidth), JsDiv(R(2), getWCHeight),
                          JsDiv(R(1), R(kCameraZ))>>)
    IN  mat4translate(m1, <<JsNeg(center[1]), JsNeg(center[2]),
                            JsNeg(JsDiv(R(kCameraZ), R(2)))>>)

\* Step B3
computeRenderCache(center) ==
    LET c1 == [mRenderCache EXCEPT
                  !.mWCToPixelRatio = JsDiv(Get(heap.mViewport, eWidth), getWCWidth),
                  !.mCameraOrgX = JsSub(center[1], JsDiv(getWCWidth, R(2))),
                  !.mCameraOrgY = JsSub(center[2], JsDiv(getWCHeight, R(2)))]
        p == wcPosToPixel(c1, getWCCenter)
    IN  [c1 EXCEPT !.mCameraPosInPixelSpace =
                       <<p[1], p[2], fakeZInPixelSpace(c1, R(kCameraZ))>>]

setViewAndCameraMatrix ==
    /\ gl' = prepareSurface([gl EXCEPT !.calls = <<>>], heap.mViewport, heap.mScissorBound,
                            mBGColor)
    /\ mCameraMatrix' = computeCameraMatrix(effectiveCenter)
    /\ mRenderCache' = computeRenderCache(effectiveCenter)
    /\ ret' = NoRet
    /\ UNCHANGED <<mCameraState, mCameraShake, heap, mViewportBound, mBGColor, outRef,
                   xform,
                   lastViewportArgs>>

collideStatus(aXform, zone) ==
    LET bbox == BoundingBox(aXform.pos, aXform.w, aXform.h)
        w == JsMul(zone, getWCWidth)
        h == JsMul(zone, getWCHeight)
        cameraBound == BoundingBox(getWCCenter, w, h)
    IN  boundCollideStatus(cameraBound, bbox)

collideWCBound(zone) ==
    /\ ret' = Ret("collideWCBound", zone, collideStatus(xform, zone), xform.pos)
    /\ UNCHANGED <<mCameraState, mCameraShake, heap, mViewportBound, mCameraMatrix,
                   mBGColor, mRenderCache, gl, outRef, xform,
                   lastViewportArgs>>

\* the writes in the order bottom, top, left, right: top and right win a double violation
clampedPosTopLast(aXform, zone, status) ==
    LET pos == aXform.pos
        p1 == IF (status \cap eCollideBottom) # {}
              THEN [pos EXCEPT ![2] = JsAdd(JsSub(getWCCenter[2],
                                                  JsDiv(JsMul(zone, getWCHeight), R(2))),
                                            JsDiv(aXform.h, R(2)))]
              ELSE pos
        p2 == IF (status \cap eCollideTop) # {}
              THEN [p1 EXCEPT ![2] = JsSub(JsAdd(getWCCenter[2],
                                                 JsDiv(JsMul(zone, getWCHeight), R(2))),
                                           JsDiv(aXform.h, R(2)))]
              ELSE p1
        p3 == IF (status \cap eCollideLeft) # {}
              THEN [p2 EXCEPT ![1] = JsAdd(JsSub(getWCCenter[1],
                                                 JsDiv(JsMul(zone, getWCWidth), R(2))),
                                           JsDiv(aXform.w, R(2)))]
              ELSE p2
        p4 == IF (status \cap eCollideRight) # {}
              THEN [p3 EXCEPT ![1] = JsSub(JsAdd(getWCCenter[1],
                                                 JsDiv(JsMul(zone, getWCWidth), R(2))),
                                           JsDiv(aXform.w, R(2)))]
              ELSE p3
    IN  IF status # eInside THEN p4 ELSE pos

\* the object's half-extent left out: its centre is put on the violated edge
clampedPosNoHalfExtent(aXform, zone, status) ==
    LET pos == aXform.pos
        p1 == IF (status \cap eCollideTop) # {}
              THEN [pos EXCEPT ![2] = JsAdd(getWCCenter[2],
                                            JsDiv(JsMul(zone, getWCHeight), R(2)))]
              ELSE pos
        p2 == IF (status \cap eCollideBottom) # {}
              THEN [p1 EXCEPT ![2] = JsSub(getWCCenter[2],
                                           JsDiv(JsMul(zone, getWCHeight), R(2)))]
              ELSE p1
        p3 == IF (status \cap eCollideRight) # {}
              THEN [p2 EXCEPT ![1] = JsAdd(getWCCenter[1],
                                           JsDiv(JsMul(zone, getWCWidth), R(2)))]
              ELSE p2
        p4 == IF (status \cap eCollideLeft) # {}
              THEN [p3 EXCEPT ![1] = JsSub(getWCCenter[1],
                                           JsDiv(JsMul(zone, getWCWidth), R(2)))]
              ELSE p3
    IN  IF status # eInside THEN p4 ELSE pos

\* the position the four conditional writes of clampAtBoundary leave in pos
clampedPos(aXform, zone, status) ==
    LET pos == aXform.pos
        p1 == IF (status \cap eCollideTop) # {}
              THEN [pos EXCEPT ![2] = JsSub(JsAdd(getWCCenter[2],
                                                  JsDiv(JsMul(zone, getWCHeight), R(2))),
                                            JsDiv(aXform.h, R(2)))]
              ELSE pos
        p2 == IF (status \cap eCollideBottom) # {}
              THEN [p1 EXCEPT ![2] = JsAdd(JsSub(getWCCenter[2],
                                                 JsDiv(JsMul(zone, getWCHeight), R(2))),
                                           JsDiv(aXform.h, R(2)))]
              ELSE p1
        p3 == IF (status \cap eCollideRight) # {}
              THEN [p2 EXCEPT ![1] = JsSub(JsAdd(getWCCenter[1],
                                                 JsDiv(JsMul(zone, getWCWidth), R(2))),
                                           JsDiv(aXform.w, R(2)))]
              ELSE p2
        p4 == IF (status \cap eCollideLeft) # {}
              THEN [p3 EXCEPT ![1] = JsAdd(JsSub(getWCCenter[1],
                                                 JsDiv(JsMul(zone, getWCWidth), R(2))),
                                           JsDiv(aXform.w, R(2)))]
              ELSE p3
    IN  IF status # eInside THEN p4 ELSE pos

\* the status taken again after the clamp and returned
clampAtBoundaryPostStatus(zone) ==
    LET status == collideStatus(xform, zone)
        moved == [xform EXCEPT !.pos = clampedPos(xform, zone, status)]
    IN  /\ xform' = moved
        /\ ret' = Ret("clampAtBoundary", zone, collideStatus(moved, zone), xform.pos)
        /\ UNCHANGED <<mCameraState, mCameraShake, heap, mViewportBound, mCameraMatrix,
                       mBGColor, mRenderCache, gl, outRef, lastViewportArgs>>

clampAtBoundary(zone) ==
    LET status == collideStatus(xform, zone)
    IN  /\ xform' = [xform EXCEPT !.pos = clampedPos(xform, zone, status)]
        /\ ret' = Ret("clampAtBoundary", zone, status, xform.pos)
        /\ UNCHANGED <<mCameraState, mCameraShake, heap, mViewportBound, mCameraMatrix,
                       mBGColor, mRenderCache, gl, outRef,
                   lastViewportArgs>>

\* ------------------------------------------------------------ environment

\* a shake collaborator with this centre is attached to the camera
shake(c) ==
    /\ mCameraShake' = <<c>>
    /\ ret' = NoRet
    /\ UNCHANGED <<mCameraState, heap, mViewportBound, mCameraMatrix, mBGColor,
                   mRenderCache, gl, outRef, xform,
                   lastViewportArgs>>

\* the shake is over and detached
shakeDone ==
    /\ mCameraShake # NULL
    /\ mCameraShake' = NULL
    /\ ret' = NoRet
    /\ UNCHANGED <<mCameraState, heap, mViewportBound, mCameraMatrix, mBGColor,
                   mRenderCache, gl, outRef, xform,
                   lastViewportArgs>>

\* the game places the object: Transform.setPosition and Transform.setSize
setXform(p, w, h) ==
    /\ xform' = [pos |-> p, w |-> w, h |-> h]
    /\ ret' = NoRet
    /\ UNCHANGED <<camVars, gl, outRef, lastViewportArgs>>

\* the caller stores into an array it holds: the one it passed to setViewport
\* (which = "arg") or the one getViewport returned to it (which = "out")
CallerWrite(which, i) ==
    LET ref == IF which = "out" THEN outRef ELSE "arg"
    IN  /\ ref # "none"
        /\ Len(heap[ref]) > i
        /\ heap' = [heap EXCEPT ![ref] = Put(@, i, Poison)]
        /\ ret' = NoRet
        /\ UNCHANGED <<mCameraState, mCameraShake, mViewportBound, mCameraMatrix, mBGColor,
                       mRenderCache, gl, outRef, xform,
                   lastViewportArgs>>

\* another camera of the scene prepares the same surface
otherCameraDraw(rect, bound, color) ==
    LET other == setViewportArrays([mViewport |-> <<>>, mScissorBound |-> <<>>], rect, bound)
    IN  /\ gl' = prepareSurface([gl EXCEPT !.calls = <<>>], other.mViewport,
                                other.mScissorBound, color)
        /\ ret' = NoRet
        /\ UNCHANGED <<camVars, outRef, xform, lastViewportArgs>>

\* ------------------------------------------------------------ specifications

\* new Camera(wcCenter, wcWidth, viewportArray, bound); bound may be Undefined
Constructed(wcCenter, wcWidth, viewportArray, bound) ==
    LET vb == IF bound # Undefined THEN bound ELSE R(0)
    IN  /\ mCameraState = [center |-> wcCenter, width |-> wcWidth]
        /\ mCameraShake = NULL
        /\ mViewportBound = vb
        /\ heap = setViewportArrays([mViewport |-> <<>>, mScissorBound |-> <<>>,
                                     arg |-> viewportArray, out |-> <<>>],
                                    viewportArray, vb)
        /\ mCameraMatrix = mat4create
        /\ mBGColor = <<Rat(8, 10), Rat(8, 10), Rat(8, 10), R(1)>>
        /\ mRenderCache = PerRenderCache
        /\ gl = glInit
        /\ outRef = "none"
        /\ ret = NoRet
        /\ lastViewportArgs = [rect |-> viewportArray, bound |-> vb]

BoundArgs == {R(b) : b \in Bounds} \cup {Undefined}

\* a rectangle that keeps positive pixel dimensions after the inset
ValidViewport(rect, bound) ==
    /\ Len(rect) = 4
    /\ JsGt(rect[3], JsMul(R(2), bound))
    /\ JsGt(rect[4], JsMul(R(2), bound))

InitOver(in) ==
    /\ \E c \in in.centers, w \in in.widths, r \in in.rects, b \in in.bounds :
          /\ ValidViewport(r, IF b = Undefined THEN R(0) ELSE b)
          /\ Constructed(c, w, r, b)
    /\ \E x \in in.objXs, y \in in.objYs, ow \in in.objSizes, oh \in in.objSizes :
          xform = [pos |-> <<x, y>>, w |-> ow, h |-> oh]

\* ---- viewport configuration: setViewport / getViewport and the arrays callers hold

ViewportInputs ==
    [centers |-> {<<R(0), R(0)>>}, widths |-> Widths, rects |-> Rects, bounds |-> BoundArgs,
     objXs |-> {R(0)}, objYs |-> {R(0)}, objSizes |-> {R(2)}]

InitViewport == InitOver(ViewportInputs)

NextViewport ==
    \/ \E w \in Widths : setWCWidth(w)
    \/ \E r \in Rects, b \in BoundArgs :
          /\ ValidViewport(r, IF b = Undefined THEN mViewportBound ELSE b)
          /\ setViewport(r, b)
    \/ getViewport
    \/ \E which \in {"arg", "out"}, i \in WriteIdx : CallerWrite(which, i)
    \/ setViewAndCameraMatrix

SpecViewport == InitViewport /\ [][NextViewport]_vars

\* ---- malformed viewport arrays

InitMalformed == InitOver(ViewportInputs)

NextMalformed ==
    \/ \E r \in Rects \cup ShortRects, b \in BoundArgs : setViewport(r, b)
    \/ getViewport
    \/ \E w \in Widths : setWCWidth(w)
    \/ setViewAndCameraMatrix

SpecMalformed == InitMalformed /\ [][NextMalformed]_vars

\* ---- draw preparation on a surface shared with another camera

SurfaceInputs ==
    [centers |-> {<<R(0), R(0)>>}, widths |-> {R(20)}, rects |-> Rects, bounds |-> BoundArgs,
     objXs |-> {R(0)}, objYs |-> {R(0)}, objSizes |-> {R(2)}]

InitSurface == InitOver(SurfaceInputs)

NextSurface ==
    \/ \E r \in Rects, b \in BoundArgs :
          /\ ValidViewport(r, IF b = Undefined THEN mViewportBound ELSE b)
          /\ setViewport(r, b)
    \/ \E col \in Colors : setBackgroundColor(col)
    \/ setViewAndCameraMatrix
    \/ \E r \in OtherRects, b \in Bounds, col \in Colors :
          /\ ValidViewport(r, R(b))
          /\ otherCameraDraw(r, R(b), col)

SpecSurface == InitSurface /\ [][NextSurface]_vars

\* ---- the camera matrix computed by draw preparation

MatrixInputs ==
    [centers |-> Centers, widths |-> Widths, rects |-> Rects, bounds |-> BoundArgs,
     objXs |-> {R(0)}, objYs |-> {R(0)}, objSizes |-> {R(2)}]

InitMatrix == InitOver(MatrixInputs)

NextMatrix ==
    \/ \E c \in Centers : setWCCenter(c[1], c[2])
    \/ \E w \in Widths : setWCWidth(w)
    \/ \E r \in Rects, b \in BoundArgs :
          /\ ValidViewport(r, IF b = Undefined THEN mViewportBound ELSE b)
          /\ setViewport(r, b)
    \/ \E c \in ShakeCenters : shake(c)
    \/ shakeDone
    \/ setViewAndCameraMatrix

SpecMatrix == InitMatrix /\ [][NextMatrix]_vars

\* ---- the camera matrix and the per-render cache between draw preparations

StaleCenters == {<<R(0), R(0)>>, <<R(0), R(1)>>}
StaleRects == {Rect(0, 0, 640, 480)}

StaleInputs ==
    [centers |-> StaleCenters, widths |-> Widths, rects |-> StaleRects, bounds |-> BoundArgs,
     objXs |-> {R(11)}, objYs |-> {R(0)}, objSizes |-> {R(2)}]

InitStale == InitOver(StaleInputs)

NextStale ==
    \/ \E c \in StaleCenters : setWCCenter(c[1], c[2])
    \/ \E w \in Widths : setWCWidth(w)
    \/ \E r \in StaleRects, b \in BoundArgs :
          /\ ValidViewport(r, IF b = Undefined THEN mViewportBound ELSE b)
          /\ setViewport(r, b)
    \/ \E col \in {<<R(0), R(0), R(0), R(1)>>} : setBackgroundColor(col)
    \/ \E c \in ShakeCenters : shake(c)
    \/ shakeDone
    \/ setViewAndCameraMatrix
    \/ collideWCBound(R(1))
    \/ clampAtBoundary(R(1))

SpecStale == InitStale /\ [][NextStale]_vars

\* ---- collision with and clamping at the WC boundary

ClampInputs ==
    [centers |-> Centers, widths |-> {R(20)}, rects |-> StaleRects, bounds |-> BoundArgs,
     objXs |-> ObjXs, objYs |-> ObjYs, objSizes |-> ObjSizes]

InitClamp == InitOver(ClampInputs)

NextClamp ==
    \/ \E c \in Centers : setWCCenter(c[1], c[2])
    \/ \E r \in StaleRects, b \in BoundArgs :
          /\ ValidViewport(r, IF b = Undefined THEN mViewportBound ELSE b)
          /\ setViewport(r, b)
    \/ \E x \in ObjXs, y \in ObjYs, ow \in ObjSizes, oh \in ObjSizes :
          setXform(<<x, y>>, ow, oh)
    \/ \E z \in Zones : clampAtBoundary(z)

SpecClamp == InitClamp /\ [][NextClamp]_vars

\* the rectangle inset by bound on each side
Inset(rect, bound) ==
    <<JsAdd(rect[1], bound), JsAdd(rect[2], bound),
      JsSub(rect[3], JsMul(R(2), bound)), JsSub(rect[4], JsMul(R(2), bound))>>

ViewportStored ==
    /\ heap.mScissorBound = lastViewportArgs.rect
    /\ heap.mViewport = Inset(lastViewportArgs.rect, lastViewportArgs.bound)
    /\ outRef \in {"none", "out"}

\* C1: the camera's scissor rectangle is always the raw rectangle of the latest
\* setViewport (and its viewport that rectangle inset by the bound), whatever the
\* caller has since stored into the array it passed or into an array getViewport
\* returned; and every getViewport hands the caller a separate array holding
\* exactly that raw rectangle.
C1_GetViewportReturnsRawCopy ==
    /\ []ViewportStored
    /\ [][getViewport => /\ outRef' \notin {"mViewport", "mScissorBound"}
                         /\ heap'[outRef'] = lastViewportArgs'.rect]_vars

\* reached: getViewport answers the raw rectangle of a viewport set with bound 1,
\* after the caller has overwritten an element of the array it had passed
C1_Witness ==
    /\ outRef = "out"
    /\ lastViewportArgs.bound = R(1)
    /\ Get(heap.arg, eOrgX) = Poison
    /\ heap.out = Rect(0, 0, 640, 480)

EffCenterAfter == IF mCameraShake' # NULL THEN mCameraShake'[1] ELSE mCameraState'.center

\* C3: immediately after setViewAndCameraMatrix the matrix maps the effective centre
\* (the shake's centre when a shake is attached, else the stored centre) to x = y = 0
\* and the point width/2 to its right to x = +1.
C3_MatrixMapsCenterToOrigin ==
    [][setViewAndCameraMatrix =>
          /\ Apply(mCameraMatrix', EffCenterAfter) = <<R(0), R(0)>>
          /\ Apply(mCameraMatrix',
                   <<JsAdd(EffCenterAfter[1], JsDiv(mCameraState'.width, R(2))),
                     EffCenterAfter[2]>>)[1] = R(1)]_vars

\* reached: a matrix prepared with a shake attached: the shake's centre, not the
\* stored one, is at the origin
C3_Witness ==
    /\ mCameraShake # NULL
    /\ mCameraMatrix # mat4create
    /\ Apply(mCameraMatrix, mCameraShake[1]) = <<R(0), R(0)>>
    /\ Apply(mCameraMatrix, <<JsAdd(mCameraShake[1][1], JsDiv(getWCWidth, R(2))),
                              mCameraShake[1][2]>>)[1] = R(1)
    /\ Apply(mCameraMatrix, getWCCenter) # <<R(0), R(0)>>

Call(f, args) == [f |-> f, args |-> args]

\* C4: each setViewAndCameraMatrix issues viewport(inset rectangle), scissor(raw
\* rectangle), clearColor(the four background components), enable, clear, disable,
\* in this order; the clear of every preparation on the surface, this camera's or
\* another's, is scissored to the rectangle of the camera that issued it, and the
\* scissor test is off between preparations.
C4_SurfaceCallOrder ==
    /\ [][setViewAndCameraMatrix =>
             /\ gl'.calls =
                   <<Call("viewport", Inset(lastViewportArgs.rect, lastViewportArgs.bound)),
                     Call("scissor", lastViewportArgs.rect),
                     Call("clearColor", mBGColor),
                     Call("enable", <<>>), Call("clear", <<>>), Call("disable", <<>>)>>
             /\ gl'.cleared = [scissored |-> TRUE, rect |-> lastViewportArgs.rect,
                               color |-> mBGColor]]_vars
    /\ [](~gl.scissorTest)
    /\ [](gl.calls # <<>> =>
             /\ gl.cleared.scissored
             /\ gl.cleared.rect = gl.calls[2].args
             /\ gl.cleared.rect = gl.scissor)

\* reached: this camera has prepared the surface, with bound 1 and the background
\* (0.1, 0.2, 0.3, 1.0), and the clear took that colour inside its raw rectangle
C4_Witness ==
    /\ Len(gl.calls) = 6
    /\ lastViewportArgs = [rect |-> Rect(0, 0, 640, 480), bound |-> R(1)]
    /\ gl.viewport = Rect(1, 1, 638, 478)
    /\ gl.cleared = [scissored |-> TRUE, rect |-> Rect(0, 0, 640, 480),
                     color |-> <<Rat(1, 10), Rat(2, 10), Rat(3, 10), R(1)>>]
    /\ gl.calls[3] = Call("clearColor", <<Rat(1, 10), Rat(2, 10), Rat(3, 10), R(1)>>)

\* what the matrix and the cache are for the current centre, width, viewport, shake
EffCenter == IF mCameraShake # NULL THEN mCameraShake[1] ELSE mCameraState.center
ViewportRatio ==
    JsDiv(JsSub(lastViewportArgs.rect[4], JsMul(R(2), lastViewportArgs.bound)),
          JsSub(lastViewportArgs.rect[3], JsMul(R(2), lastViewportArgs.bound)))
WCHeightNow == JsMul(mCameraState.width, ViewportRatio)
MatrixNow ==
    LET sx == JsDiv(R(2), mCameraState.width)
        sy == JsDiv(R(2), WCHeightNow)
    IN  <<sx, R(0), R(0), R(0),  R(0), sy, R(0), R(0),
          R(0), R(0), Rat(1, kCameraZ), R(0),
          JsNeg(JsMul(sx, EffCenter[1])), JsNeg(JsMul(sy, EffCenter[2])), Rat(-1, 2), R(1)>>
PixelRatioNow ==
    JsDiv(JsSub(lastViewportArgs.rect[3], JsMul(R(2), lastViewportArgs.bound)),
          mCameraState.width)
CacheMatches(cache) ==
    LET orgX == JsSub(EffCenter[1], JsDiv(mCameraState.width, R(2)))
        orgY == JsSub(EffCenter[2], JsDiv(WCHeightNow, R(2)))
    IN  /\ cache.mWCToPixelRatio = PixelRatioNow
        /\ cache.mCameraOrgX = orgX
        /\ cache.mCameraOrgY = orgY
        /\ cache.mCameraPosInPixelSpace[1] =
              JsMul(JsSub(mCameraState.center[1], orgX), PixelRatioNow)
        /\ cache.mCameraPosInPixelSpace[2] =
              JsMul(JsSub(mCameraState.center[2], orgY), PixelRatioNow)

\* C10: only setViewAndCameraMatrix writes the matrix and the render cache (every
\* other operation leaves both as they were, stale or not), and right after it both
\* match the centre, width, viewport and shake, which it leaves as they are.
C10_MatrixAndCacheOnlyByDrawPrep ==
    /\ [][(mCameraMatrix' # mCameraMatrix \/ mRenderCache' # mRenderCache)
             => setViewAndCameraMatrix]_vars
    /\ [][((gl' # gl \/ mCameraMatrix' # mCameraMatrix \/ mRenderCache' # mRenderCache)
              /\ setViewAndCameraMatrix) =>
             /\ UNCHANGED <<mCameraState, mCameraShake, lastViewportArgs>>
             /\ mCameraMatrix' = MatrixNow
             /\ CacheMatches(mRenderCache')]_vars

\* reached: prepared once, then centre, width and viewport bound changed: the
\* matrix and cache are those of the earlier state
C10_Witness ==
    /\ mCameraMatrix # mat4create
    /\ mCameraMatrix # MatrixNow
    /\ ~CacheMatches(mRenderCache)
    /\ mRenderCache.mWCToPixelRatio # PixelRatioNow
    /\ xform.pos # <<R(11), R(0)>>

\* C8: clampAtBoundary returns the status collideWCBound yields on the state before
\* the call and changes nothing but the object's position; collideWCBound changes
\* nothing (ret holds what each of them returned).
C8_ClampReturnsPreStatusAndFrames ==
    /\ [][ret'.op = "clampAtBoundary" =>
             /\ ret'.status = collideStatus(xform, ret'.zone)
             /\ xform'.w = xform.w /\ xform'.h = xform.h
             /\ UNCHANGED <<camVars, gl, outRef, lastViewportArgs>>]_vars
    /\ [][ret'.op = "collideWCBound" =>
             /\ ret'.status = collideStatus(xform, ret'.zone)
             /\ UNCHANGED <<camVars, gl, outRef, lastViewportArgs, xform>>]_vars

\* reached: a clamp that moved the object returned collide-right although the
\* object is inside afterwards, with the matrix of an earlier draw preparation
C8_Witness ==
    /\ ret.op = "clampAtBoundary"
    /\ ret.status = eCollideRight
    /\ collideStatus(xform, ret.zone) = eInside
    /\ xform.pos # ret.posBefore
    /\ mCameraMatrix # mat4create

\* ------------------------------------------------------------ clamping

HalfZoneW(z) == JsDiv(JsMul(z, getWCWidth), R(2))
HalfZoneH(z) == JsDiv(JsMul(z, getWCHeight), R(2))
OnTop(z) == JsSub(JsAdd(getWCCenter[2], HalfZoneH(z)), JsDiv(xform.h, R(2)))
OnBottom(z) == JsAdd(JsSub(getWCCenter[2], HalfZoneH(z)), JsDiv(xform.h, R(2)))
OnRight(z) == JsSub(JsAdd(getWCCenter[1], HalfZoneW(z)), JsDiv(xform.w, R(2)))
OnLeft(z) == JsAdd(JsSub(getWCCenter[1], HalfZoneW(z)), JsDiv(xform.w, R(2)))

\* the object as it was when the latest collide / clamp call was made
XformBefore == [xform EXCEPT !.pos = ret.posBefore]
StatusBefore == collideStatus(XformBefore, ret.zone)

\* the statement of C5 as written: right after a clamp that reported the object not
\* inside, the object is on every reported edge
C5_OnEveryViolatedEdge ==
    (ret.op = "clampAtBoundary" /\ StatusBefore # eInside) =>
        /\ "top" \in StatusBefore => xform.pos[2] = OnTop(ret.zone)
        /\ "bottom" \in StatusBefore => xform.pos[2] = OnBottom(ret.zone)
        /\ "right" \in StatusBefore => xform.pos[1] = OnRight(ret.zone)
        /\ "left" \in StatusBefore => xform.pos[1] = OnLeft(ret.zone)
        /\ StatusBefore \cap {"top", "bottom"} = {} => xform.pos[2] = ret.posBefore[2]
        /\ StatusBefore \cap {"left", "right"} = {} => xform.pos[1] = ret.posBefore[1]

\* C5 (amended): right after a clamp that reported the object not inside, the object
\* is on each reported edge whose opposite edge was not reported too; when top and
\* bottom are both reported it is on the bottom edge, when left and right are both
\* reported on the left edge; an axis with no reported edge keeps its coordinate.
C5_OnViolatedEdgeBottomLeftWin ==
    (ret.op = "clampAtBoundary" /\ StatusBefore # eInside) =>
        /\ ("top" \in StatusBefore /\ "bottom" \notin StatusBefore)
              => xform.pos[2] = OnTop(ret.zone)
        /\ "bottom" \in StatusBefore => xform.pos[2] = OnBottom(ret.zone)
        /\ ("right" \in StatusBefore /\ "left" \notin StatusBefore)
              => xform.pos[1] = OnRight(ret.zone)
        /\ "left" \in StatusBefore => xform.pos[1] = OnLeft(ret.zone)
        /\ StatusBefore \cap {"top", "bottom"} = {} => xform.pos[2] = ret.posBefore[2]
        /\ StatusBefore \cap {"left", "right"} = {} => xform.pos[1] = ret.posBefore[1]

\* reached: a clamp reported top and left together and moved the object onto both
\* edges
C5_Witness ==
    /\ ret.op = "clampAtBoundary"
    /\ ret.status = {"top", "left"}
    /\ xform.pos = <<OnLeft(ret.zone), OnTop(ret.zone)>>
    /\ xform.pos[1] # ret.posBefore[1]
    /\ xform.pos[2] # ret.posBefore[2]

\* C6: right after clampAtBoundary(xform, zone), a second clampAtBoundary(xform, zone)
\* leaves the position the first one left.
C6_ClampIdempotent ==
    ret.op = "clampAtBoundary" =>
        clampedPos(xform, ret.zone, collideStatus(xform, ret.zone)) = xform.pos

ScenarioCamera ==
    /\ mCameraState = [center |-> <<R(0), R(0)>>, width |-> R(20)]
    /\ lastViewportArgs = [rect |-> Rect(0, 0, 640, 480), bound |-> R(0)]
ScenarioCall ==
    /\ ScenarioCamera
    /\ ret.zone = R(1)
    /\ XformBefore = [pos |-> <<R(11), R(0)>>, w |-> R(2), h |-> R(2)]

\* C7: in the scenario (centre (0,0), width 20, viewport [0,0,640,480], bound 0,
\* zone 1, object 2x2 at (11,0)) the WC height is 15, collideWCBound reports
\* collide-right, and clampAtBoundary reports it too and moves the object to (9,0);
\* and any object whose right edge is beyond the zone's right edge is reported as
\* colliding right.
C7_ScenarioCollideRight ==
    /\ ScenarioCamera => getWCHeight = R(15)
    /\ (ret.op = "collideWCBound" /\ ScenarioCall) => ret.status = eCollideRight
    /\ (ret.op = "clampAtBoundary" /\ ScenarioCall) =>
          (ret.status = eCollideRight /\ xform.pos = <<R(9), R(0)>>)
    /\ (/\ ret.op \in {"collideWCBound", "clampAtBoundary"}
        /\ JsGt(JsAdd(ret.posBefore[1], JsDiv(xform.w, R(2))),
                JsAdd(getWCCenter[1], HalfZoneW(ret.zone))))
          => "right" \in ret.status

\* reached: the scenario right after the clamp: collide-right returned, object at (9,0)
C7_Witness ==
    /\ ret.op = "clampAtBoundary"
    /\ ScenarioCall
    /\ ret.status = eCollideRight
    /\ xform.pos = <<R(9), R(0)>>

\* ------------------------------------------------------------ malformed rectangles

\* C9: setViewport with fewer than 4 components signals an invalid argument and
\* leaves the viewport and scissor rectangles as they were.
C9_MalformedRejected ==
    [][\A r \in ShortRects, b \in BoundArgs :
          (heap' # heap /\ setViewport(r, b)) =>
              /\ ret'.op = "invalid-argument"
              /\ heap'.mViewport = heap.mViewport
              /\ heap'.mScissorBound = heap.mScissorBound]_vars

====
